---- MODULE Spec2Model ----
(***************************************************************************)
(* A model of the dungeon layout engine of mailcraft (src/gen.py, main).   *)
(* One run of main() is a state machine: the settings are read, the start  *)
(* room is copied, the mail is fetched, and the loop over the threads      *)
(* stamps room templates into grid cells at the current height.            *)
(*                                                                         *)
(* A grid cell (one chunk) is kept as the record of what the block level   *)
(* writes of gen.py left in it: the template last copied into it and the   *)
(* height of that copy, the state of its four doorway apertures, the       *)
(* hazard floor, the pillars and the puzzle.  ops is the sequence of the   *)
(* calls main() issued, each with the source line of the call (site).      *)
(***************************************************************************)
EXTENDS Integers, Sequences, FiniteSets, TLC

\* ---------------------------------------------------------------- constants

HEIGHT_INC == 8

\* gen.py:26-27, the two configuration tables
difficulty == <<1, 2, 3, 4, 5, 7>>
length == <<7, 12, 20, 30, -1>>

\* the height below which a branch room gets lava (gen.py:263) and the one
\* below which the spine cell gets lava (gen.py:281)
BRANCH_LAVA_BELOW == 24
SPINE_LAVA_BELOW == 16

\* the danger block of a branch room with lava (gen.py:265) and
\* alphaMaterials.Lava.ID, the one of the spine cell (gen.py:283)
FLOWING_LAVA == 10
LAVA_ID == 11

\* the sign keeps the first 15 characters (gen.py:224-225)
SIGN_CHARS == 15

\* floorPuzzle draws once per tile, 12 rows of 14 tiles (gen.py:135-136)
PUZZLE_DRAWS == 12 * 14

\* ------------------------------------------------------------------- bounds

\* the largest number of messages of a thread
MaxMsgs == 5
\* the largest number of threads the mail source returns
MaxThreads == 31
\* the number of distinct values random.random() can give in the model
NFloats == 2
\* the largest length limit tried outside the table (specification SpecAnyLength)
MaxSmallLength == 3
\* the heights tried for setExits alone: 0, HEIGHT_INC, ... (SpecCall)
MaxExitBands == 2
\* the largest height tried for roomCopy alone (SpecCall)
MaxCopyHeight == 264
\* the largest number of threads of a run of the unlimited length (SpecTall)
MaxTallThreads == 34
\* the heights tried for floorPuzzle alone: 0, HEIGHT_INC, ... (SpecCall)
MaxPuzzleBands == 3

\* -------------------------------------------------------------- python bits

Min(a, b) == IF a < b THEN a ELSE b
Max(a, b) == IF a > b THEN a ELSE b

\* Python's % for a non-zero divisor: the result has the sign of the divisor
PyMod(a, b) == IF b > 0 THEN a % b ELSE -((-a) % (-b))
\* Python 2's / on ints for a non-zero divisor: floor division
PyDiv(a, b) == IF b > 0 THEN a \div b ELSE (-a) \div (-b)

\* s[:n]
Prefix(s, n) == SubSeq(s, 1, Min(Len(s), n))

\* ---------------------------------------------------------------- mail data
\* A string is a sequence of characters.  A message is the dict getmail()
\* builds, of which gen.py reads 'subject' and 'from'.

SenderA == <<"a", "@", "x", ".", "c", "o", "m">>
SenderB == <<"b", "@", "y", ".", "c", "o", "m">>
NoSender == <<>>
\* two senders that differ after their 15th character only
LongPrefix == [k \in 1..15 |-> "p"]
SenderC == LongPrefix \o <<"@", "x">>
SenderD == LongPrefix \o <<"@", "y">>
Senders == {SenderA, SenderB, NoSender, SenderC, SenderD}

LongSubject == [k \in 1..17 |-> "s"]
ShortSubject == <<"H", "i">>

Message(sender) ==
    [subject |-> IF sender = SenderA THEN LongSubject ELSE ShortSubject,
     from |-> sender]

\* a thread of m messages, the first one sent by sender
Thread(m, sender) ==
    [k \in 1..m |-> IF k = 1 THEN Message(sender) ELSE Message(SenderB)]

\* T threads of one message each
Uniform(T) == [k \in 1..T |-> Thread(1, IF k % 2 = 1 THEN SenderA ELSE SenderB)]
\* T threads of 1, 2, .., MaxMsgs, 1, 2, .. messages
Cyclic(T) ==
    [k \in 1..T |-> Thread(1 + ((k - 1) % MaxMsgs),
                           IF k % 2 = 1 THEN SenderA ELSE SenderB)]

\* the thread lists getmail() returns in the model
MailLists ==
    {<<Thread(m, s)>> : m \in 0..MaxMsgs, s \in Senders}
    \cup {<<Thread(m1, SenderA), Thread(m2, SenderB)>> :
              m1 \in 0..MaxMsgs, m2 \in 0..MaxMsgs}
    \cup {Uniform(T) : T \in 0..MaxThreads}
    \cup {Cyclic(MaxThreads)}

\* ---------------------------------------------------------------- variables

VARIABLES
    difficulty_setting, \* gen.py:164
    length_setting,     \* gen.py:165
    maildata,           \* gen.py:196
    pc,                 \* the position of main()
    exc,                \* the exception that ended main(), or "none"
    i,                  \* the index of the thread being processed
    ii,                 \* the index of the message being processed
    row_num,
    col_num,
    original_col_number,
    height,
    seed,               \* the seed of the current thread (gen.py:242-245)
    rng,                \* the state of the module random
    grid,               \* the chunks of level, by <<col, row>>
    signs,              \* the tile entities of level, by <<x, y, z>>
    ops,                \* the calls issued so far
    call,               \* a call of one function on its own: the arguments
    room,               \* the chunk given to setExits
    to                  \* the chunk given to roomCopy as its target

vars == <<difficulty_setting, length_setting, maildata, pc, exc, i, ii,
          row_num, col_num, original_col_number, height, seed, rng, grid,
          signs, ops, call, room, to>>

\* ---------------------------------------------------------------- the world
\* The operators below take and give a world w: the grid, the signs, the
\* random stream and the calls issued.

NoExits == [west |-> -1, east |-> -1, north |-> -1, south |-> -1]

NoPuzzle == [seed |-> -2, pos |-> 0, h |-> 0, dangerBlock |-> 0, diff |-> 0]

\* a seed is the value given to random.seed: a string (f = -1) or the float
\* random.random() gave (str empty, f the float); NoSeed is neither
NoSeed == [str |-> <<>>, f |-> -1]

\* a chunk just created: nothing copied into it yet.  seed, seedCalls and
\* drawPos are those of the placeNextRoom call that filled the cell: the seed
\* it was given, the number of random.seed calls made up to its template
\* draw, and the position of that draw in the stream
EmptyCell ==
    [tmpl |-> "none", h |-> 0, exits |-> NoExits, hazard |-> "none",
     pillar |-> FALSE, puzzle |-> NoPuzzle, seed |-> NoSeed, seedCalls |-> 0,
     drawPos |-> -1]

Op(site, op, tmpl, col, row, h, exits) ==
    [site |-> site, op |-> op, tmpl |-> tmpl, col |-> col, row |-> row,
     h |-> h, exits |-> exits]

Issue(w, o) == [w EXCEPT !.ops = Append(@, o)]

\* gen.py:31-33
makeChunk(w, col, row) ==
    [w EXCEPT !.grid = (<<col, row>> :> EmptyCell) @@ @]

\* gen.py:50-54: the whole chunk becomes the template
deepCopy(w, site, tmpl, col, row) ==
    Issue([w EXCEPT !.grid[<<col, row>>] = [EmptyCell EXCEPT !.tmpl = tmpl]],
          Op(site, "deepCopy", tmpl, col, row, 0, NoExits))

\* gen.py:43-47: layers 3+h and above become the template's layers 3 and
\* above, so the doorways, the floor layer and the pillars above it are the
\* template's again; what a floor removal did below layer 3+h stays
roomCopy(w, site, tmpl, col, row, h) ==
    LET old == w.grid[<<col, row>>]
        new == [EmptyCell EXCEPT
                   !.tmpl = tmpl, !.h = h,
                   !.hazard = IF old.hazard = "nofloor" THEN "nofloor" ELSE "none"]
    IN  Issue([w EXCEPT !.grid[<<col, row>>] = new],
              Op(site, "roomCopy", tmpl, col, row, h, NoExits))

\* gen.py:72-110: a face whose argument is -1 is left alone
setExits(w, site, col, row, h, west, east, north, south) ==
    LET old == w.grid[<<col, row>>].exits
        new == [west |-> IF west > -1 THEN west ELSE old.west,
                east |-> IF east > -1 THEN east ELSE old.east,
                north |-> IF north > -1 THEN north ELSE old.north,
                south |-> IF south > -1 THEN south ELSE old.south]
    IN  Issue([w EXCEPT !.grid[<<col, row>>].exits = new],
              Op(site, "setExits", "", col, row, h,
                 [west |-> west, east |-> east, north |-> north, south |-> south]))

\* gen.py:120-124
theFloorIsLava(w, site, col, row, h) ==
    Issue([w EXCEPT !.grid[<<col, row>>].hazard = "lava"],
          Op(site, "theFloorIsLava", "", col, row, h, NoExits))

\* gen.py:127-131
noFloor(w, site, col, row, h) ==
    Issue([w EXCEPT !.grid[<<col, row>>].hazard = "nofloor"],
          Op(site, "noFloor", "", col, row, h, NoExits))

\* gen.py:144-150
makePillar(w, col, row) ==
    [w EXCEPT !.grid[<<col, row>>].pillar = TRUE]

\* ------------------------------------------------------------ module random
\* The stream is a function of the seed and of the number of draws made since
\* the seed was set.  OsSeed is the stream the interpreter starts with.

OsSeed == -1

\* random.seed(x) hashes x
SeedOf(x) ==
    IF x.f >= 0 THEN 10 + x.f
    ELSE IF x.str = SenderA THEN 1
    ELSE IF x.str = SenderB THEN 2
    ELSE IF x.str = LongPrefix THEN 4
    ELSE 3

\* the draw at position pos of the stream of seed s
Raw(s, pos) == (s + pos * 20 + s * pos * 9 + 3) % 61

\* random.randint(a, b) on a seeded stream
RandInt(r, a, b) == a + (Raw(r.seed, r.pos) % (b - a + 1))

Advance(r, n) == [r EXCEPT !.pos = @ + n]

\* the room templates placeNextRoom chooses from (gen.py:184)
room_sel == <<"basic", "basic2">>

\* a placeNextRoom that draws on without seeding
ReseedSkipped(r, sd) == r

\* gen.py:58: random.seed(seed) starts the stream of the seed anew
Reseed(r, sd) == [seed |-> SeedOf(sd), pos |-> 0, n |-> r.n + 1]

\* gen.py:57-66
placeNextRoom(w, site, col, row, sd, h, roomArray) ==
    LET r0 == Reseed(w.rng, sd)
        k == RandInt(r0, 0, Len(roomArray) - 1)
        w1 == roomCopy(w, site, roomArray[k + 1], col, row, h)
        r1 == Advance(r0, 1)
        j == RandInt(r1, 0, 10)
        w2 == IF j = 0 THEN makePillar(w1, col, row) ELSE w1
        w3 == [w2 EXCEPT !.grid[<<col, row>>].seed = sd,
                         !.grid[<<col, row>>].seedCalls = r0.n,
                         !.grid[<<col, row>>].drawPos = r0.pos]
    IN  [w3 EXCEPT !.rng = Advance(r1, 1)]

\* gen.py:134-141: one draw per tile; the puzzle is the stretch of the stream
\* it was drawn from, with the danger block and the range of the draws
floorPuzzle(w, site, col, row, h, dangerBlock, diff) ==
    LET p == [seed |-> w.rng.seed, pos |-> w.rng.pos, h |-> h,
              dangerBlock |-> dangerBlock, diff |-> diff]
        w1 == [w EXCEPT !.grid[<<col, row>>].puzzle = p,
                        !.rng = Advance(@, PUZZLE_DRAWS)]
    IN  Issue(w1, Op(site, "floorPuzzle", "", col, row, h, NoExits))

World == [grid |-> grid, signs |-> signs, rng |-> rng, ops |-> ops]

Commit(w) ==
    /\ grid' = w.grid
    /\ signs' = w.signs
    /\ rng' = w.rng
    /\ ops' = w.ops

\* ------------------------------------------------------- the steps of main()

\* a break that comes one thread late
LoopBreaksLate(idx, lengthSetting) == idx = lengthSetting + 1

\* gen.py:201
LoopBreaks(idx, lengthSetting) == idx = lengthSetting

\* gen.py:232
DiffInterval(lengthSetting, difficultySetting) ==
    PyDiv(lengthSetting, difficultySetting)

\* a band test that forgets the interval
IsBandBoundaryNoMod(idx, interval, lengthSetting) ==
    idx # 0 /\ idx # lengthSetting

\* a band test that forgets to leave out the first thread
IsBandBoundaryAtZero(idx, interval, lengthSetting) ==
    PyMod(idx, interval) = 0 /\ idx # lengthSetting

\* gen.py:233, for a non-zero interval
IsBandBoundary(idx, interval, lengthSetting) ==
    PyMod(idx, interval) = 0 /\ idx # 0 /\ idx # lengthSetting

\* a stairs step that forgets the increment
NextHeightSame(h) == h

\* gen.py:235 and gen.py:291
NextHeight(h) == h + HEIGHT_INC

\* what the mail service gives: a message whose reply lacks a key has None
\* there (Resource.__init__); None is written as a text no mail can hold
PyNone == <<"None">>

RawMessage(subject, sender) == [subject |-> subject, sender |-> sender]
ToRaw(mes) == RawMessage(mes.subject, mes.from)
ToRawThread(th) == [k \in DOMAIN th |-> ToRaw(th[k])]
ToRawList(l) == [k \in DOMAIN l |-> ToRawThread(l[k])]

\* getmail.py:23-40: mes.addresses['from']['email'] raises for a message
\* without sender, in both tries, and the message is left out
HasSender(mes) == mes.sender # PyNone
Fetched(mes) == [subject |-> mes.subject, from |-> mes.sender]
getmailThread(rawthread) ==
    LET kept == SelectSeq(rawthread, HasSender)
    IN  [k \in DOMAIN kept |-> Fetched(kept[k])]
getmail(rawlist) == [k \in DOMAIN rawlist |-> getmailThread(rawlist[k])]

\* threads whose first message lacks the subject or the sender, alone or
\* followed by complete messages or by complete threads
MissingThreads ==
    {<<RawMessage(sub, snd)>> \o ToRawThread(Thread(m, SenderB)) :
        sub \in {PyNone, ShortSubject}, snd \in {PyNone, SenderA},
        m \in 0..MaxMsgs}
RawLists ==
    {ToRawList(l) : l \in MailLists}
    \cup {<<th>> : th \in MissingThreads}
    \cup {<<th>> \o ToRawList(Uniform(2)) : th \in MissingThreads}
    \cup {ToRawList(Uniform(2)) \o <<th>> : th \in MissingThreads}

\* gen.py:221-225: the two lines of the sign
SignSubject(thread) ==
    IF Len(thread) > 0 THEN Prefix(thread[1].subject, SIGN_CHARS)
    ELSE <<"D", "r", "a", "f", "t">>
Fro(thread) ==
    IF Len(thread) > 0 THEN Prefix(thread[1].from, SIGN_CHARS) ELSE <<>>

\* a sign point half a chunk further south
SignPointSouth(idx) == <<6, 5 + (idx \div 5) * HEIGHT_INC, 38 + 32 * idx>>

\* gen.py:205
SignPoint(idx) == <<6, 5 + (idx \div 5) * HEIGHT_INC, 30 + 32 * idx>>

\* gen.py:208-229: the sign at the point is created or gets the new text
addSign(w, site, idx, thread) ==
    LET pt == SignPoint(idx)
        te == [Text1 |-> SignSubject(thread), Text2 |-> Fro(thread)]
    IN  Issue([w EXCEPT !.signs = (pt :> te) @@ @],
              Op(site, "addTileEntity", "", pt[1] \div 16, pt[3] \div 16,
                 pt[2], NoExits))

\* an east exit opened for every thread that has a message
EntryEastOpenAny(thread) == Len(thread) > 0

\* gen.py:250
EntryEastOpen(thread) == Len(thread) > 1

\* a branch loop that stops after MaxMsgs - 2 rooms
BranchContinuesCapped(idx, thread) ==
    idx < Len(thread) /\ idx <= MaxMsgs - 2

\* gen.py:254-256: the message indices the branch loop works on
BranchContinues(idx, thread) == idx < Len(thread)

\* a short-branch test that takes a distance of 5 as short
TerminalKindShortAtFive(d) ==
    IF d < 6 THEN "seal" ELSE IF d < 8 THEN "treasure" ELSE "gaudy"

\* gen.py:273-278
TerminalKind(d) ==
    IF d < 5 THEN "seal" ELSE IF d < 8 THEN "treasure" ELSE "gaudy"

\* a seal put on the cell at the cursor
SealedColumnCursor(col) == col

\* gen.py:274: the cell whose east face a short branch gets walled
SealedColumn(col) == col - 1

\* the branch hazard chosen with the threshold of the spine hazard
BranchHazardAsSpine(h) == IF h < SPINE_LAVA_BELOW THEN "lava" ELSE "nofloor"

\* gen.py:263
BranchHazard(h) == IF h < BRANCH_LAVA_BELOW THEN "lava" ELSE "nofloor"
\* gen.py:281
SpineHazard(h) == IF h < SPINE_LAVA_BELOW THEN "lava" ELSE "nofloor"

\* a puzzle of the same density at every height
PuzzleDiffFlat(h) == 1

\* gen.py:269, 287: the last argument of floorPuzzle
PuzzleDiff(h) == PyDiv(h, HEIGHT_INC) + 1

\* a spine hazard for the threads of even index
SpineHazardDueEven(idx) == idx % 2 = 0

\* gen.py:279
SpineHazardDue(idx) == idx % 2 = 1

thread == maildata[i + 1]

\* ------------------------------------------------------------- the blocks
\* A chunk is 16 x 16 columns of LAYERS blocks; Blocks[x, y, z] is the block
\* of column <<x, y>> at layer z.

LAYERS == 256
COBBLESTONE == 4
STONE_BRICK == 98
AIR == 0

\* a[start:stop] of an axis of n entries: the first index and the index after
\* the last, as Python places them
SliceBound(k, n) == IF k < 0 THEN Max(k + n, 0) ELSE Min(k, n)
Slice(start, stop, n) ==
    [lo |-> SliceBound(start, n), hi |-> SliceBound(stop, n)]
SliceLen(sl) == Max(sl.hi - sl.lo, 0)
SliceSet(sl) == sl.lo..(sl.hi - 1)

NoCall == [fn |-> "none", h |-> 0, exits |-> NoExits, status |-> "none"]

\* the room of setExits, as the blocks written into it: a block that is not
\* in the domain still is what it was
FreshRoom == [Blocks |-> <<>>, changed |-> 0]

\* the chunks of roomCopy, layer by layer: every layer of the template and
\* of the target is a value of its own
TemplateChunk ==
    [Blocks |-> [z \in 0..(LAYERS - 1) |-> <<"fro", "Blocks", z>>],
     Data |-> [z \in 0..(LAYERS - 1) |-> <<"fro", "Data", z>>]]
FreshTarget ==
    [Blocks |-> [z \in 0..(LAYERS - 1) |-> <<"to", "Blocks", z>>],
     Data |-> [z \in 0..(LAYERS - 1) |-> <<"to", "Data", z>>],
     changed |-> 0]

\* Blocks[xs, ys, zs] = v
Region(xs, ys, zs) == {<<x, y, z>> : x \in xs, y \in ys, z \in zs}
Assign(B, region, v) ==
    [p \in (DOMAIN B) \cup region |-> IF p \in region THEN v ELSE B[p]]

\* the columns of a face: gen.py:81, 89, 97, 105
FaceColumns(face) ==
    CASE face = "west" -> Region({0}, SliceSet(Slice(7, 9, 16)), {0})
      [] face = "east" -> Region({15}, SliceSet(Slice(7, 9, 16)), {0})
      [] face = "north" -> Region(SliceSet(Slice(7, 9, 16)), {0}, {0})
      [] face = "south" -> Region(SliceSet(Slice(7, 9, 16)), {15}, {0})

FaceRegion(face, zs) ==
    {<<c[1], c[2], z>> : c \in FaceColumns(face), z \in zs}

\* a floor laid under every face that is given
FloorLaidAlways(v) == v > -1

\* gen.py:77, 85, 93, 101
FloorLaid(v) == v = 1

\* gen.py:76-82, one face
setFace(B, face, v, floor) ==
    LET B1 == IF FloorLaid(v)
              THEN Assign(B, FaceRegion(face, {floor}), COBBLESTONE)
              ELSE B
        fill == IF v = 1 THEN AIR ELSE STONE_BRICK
    IN  IF v > -1
        THEN Assign(B1,
                    FaceRegion(face,
                               SliceSet(Slice(floor + 1, floor + 3, LAYERS))),
                    fill)
        ELSE B

\* gen.py:72-110, on the blocks
setExitsBlocks(r, h, exits) ==
    LET floor == 3 + h
        b1 == setFace(r.Blocks, "west", exits.west, floor)
        b2 == setFace(b1, "east", exits.east, floor)
        b3 == setFace(b2, "north", exits.north, floor)
        b4 == setFace(b3, "south", exits.south, floor)
    IN  [Blocks |-> b4, changed |-> r.changed + 1]

SAFE_STONE == 1

\* gen.py:120-124, on the blocks
theFloorIsLavaBlocks(B, h) ==
    LET B1 == Assign(B, Region(0..15, 0..15,
                               SliceSet(Slice(2 + h, 4 + h, LAYERS))),
                     STONE_BRICK)
    IN  Assign(B1, Region(SliceSet(Slice(1, 15, 16)),
                          SliceSet(Slice(2, 14, 16)), {3 + h}),
               FLOWING_LAVA)

\* gen.py:127-131, on the blocks
noFloorBlocks(B, h) ==
    LET B1 == Assign(B, Region(0..15, 0..15,
                               SliceSet(Slice(0, 4 + h, LAYERS))),
                     STONE_BRICK)
    IN  Assign(B1, Region(SliceSet(Slice(1, 15, 16)),
                          SliceSet(Slice(2, 14, 16)),
                          SliceSet(Slice(0, 4 + h, LAYERS))),
               AIR)

\* gen.py:134-141, on the blocks: i runs over 2..13 and, inside, j over
\* 1..14, one draw for each Blocks[j, i, 3+h]
floorPuzzleBlocks(B, r, h, dangerBlock, diff) ==
    LET tiles == Region(1..14, 2..13, {3 + h})
        k(p) == RandInt(Advance(r, (p[2] - 2) * 14 + (p[1] - 1)), 0, diff)
    IN  [p \in (DOMAIN B) \cup tiles |->
            IF p \in tiles
            THEN IF k(p) = 0 THEN SAFE_STONE ELSE dangerBlock
            ELSE B[p]]

\* a source range that starts at the template's lowest layer
SourceSliceFromZero(h) == Slice(0, LAYERS - 3 - h, LAYERS)

\* gen.py:44: fro.Blocks[:, :, 3:256-h]
SourceSlice(h) == Slice(3, 256 - h, LAYERS)

\* gen.py:44: to.Blocks[:, :, 3+h:]
TargetSlice(h) == Slice(3 + h, LAYERS, LAYERS)

\* an array of n layers can be assigned to a range of m layers when the
\* lengths agree or the one layer is repeated
Fits(n, m) == n = m \/ n = 1

CopyLayers(tgt, src, h) ==
    LET s == SourceSlice(h)
        t == TargetSlice(h)
    IN  [z \in 0..(LAYERS - 1) |->
            IF z \in SliceSet(t)
            THEN src[IF SliceLen(s) = 1 THEN s.lo ELSE s.lo + (z - t.lo)]
            ELSE tgt[z]]

\* gen.py:43-47, on the layers
roomCopyFits(h) == Fits(SliceLen(SourceSlice(h)), SliceLen(TargetSlice(h)))
roomCopyLayers(fro, t, h) ==
    [Blocks |-> CopyLayers(t.Blocks, fro.Blocks, h),
     Data |-> CopyLayers(t.Data, fro.Data, h),
     changed |-> t.changed + 1]

Init ==
    /\ difficulty_setting \in {difficulty[k] : k \in DOMAIN difficulty}
    /\ length_setting \in {length[k] : k \in DOMAIN length}
    /\ maildata = <<>>
    /\ pc = "start"
    /\ exc = "none"
    /\ i = 0
    /\ ii = 0
    /\ row_num = 0
    /\ col_num = 0
    /\ original_col_number = 0
    /\ height = 0
    /\ seed = NoSeed
    /\ rng = [seed |-> OsSeed, pos |-> 0, n |-> 0]
    /\ grid = <<>>
    /\ signs = <<>>
    /\ ops = <<>>
    /\ call = NoCall
    /\ room = FreshRoom
    /\ to = FreshTarget

\* gen.py:188-193
Start ==
    /\ pc = "start"
    /\ Commit(deepCopy(makeChunk(World, col_num, row_num), 192, "start",
                       col_num, row_num))
    /\ row_num' = row_num + 1
    /\ pc' = "fetch"
    /\ UNCHANGED <<call, room, to,
                   difficulty_setting, length_setting, maildata, exc, i, ii,
                   col_num, original_col_number, height, seed>>

\* gen.py:196
GetMail ==
    /\ pc = "fetch"
    /\ maildata' \in MailLists
    /\ pc' = "loop"
    /\ UNCHANGED <<call, room, to,
                   difficulty_setting, length_setting, exc, i, ii, row_num,
                   col_num, original_col_number, height, seed, rng, grid,
                   signs, ops>>

\* gen.py:200-202: the next thread is taken
NextThread ==
    /\ pc = "loop"
    /\ i < Len(maildata)
    /\ ~LoopBreaks(i, length_setting)
    /\ pc' = "spine"
    /\ UNCHANGED <<call, room, to,
                   difficulty_setting, length_setting, maildata, exc, i, ii,
                   row_num, col_num, original_col_number, height, seed, rng,
                   grid, signs, ops>>

\* gen.py:201-202: the length limit is reached
Break ==
    /\ pc = "loop"
    /\ i < Len(maildata)
    /\ LoopBreaks(i, length_setting)
    /\ pc' = "final"
    /\ UNCHANGED <<call, room, to,
                   difficulty_setting, length_setting, maildata, exc, i, ii,
                   row_num, col_num, original_col_number, height, seed, rng,
                   grid, signs, ops>>

\* gen.py:200: no thread is left
Exhausted ==
    /\ pc = "loop"
    /\ i = Len(maildata)
    /\ pc' = "final"
    /\ UNCHANGED <<call, room, to,
                   difficulty_setting, length_setting, maildata, exc, i, ii,
                   row_num, col_num, original_col_number, height, seed, rng,
                   grid, signs, ops>>

\* gen.py:203-239: the spine cell of the thread, its sign, tunnel or stairs
SpineStep ==
    /\ pc = "spine"
    /\ LET w1 == roomCopy(makeChunk(World, 0, row_num), 203, "v_tunnel",
                          0, row_num, height)
           w2 == addSign(w1, 229, i, thread)
           diffInterval == DiffInterval(length_setting, difficulty_setting)
       IN  IF Len(thread) > 0 /\ thread[1].subject = PyNone
           THEN \* gen.py:224: None[:15] raises TypeError
                /\ Commit(w1)
                /\ pc' = "raised"
                /\ exc' = "TypeError"
                /\ UNCHANGED <<height, row_num>>
           ELSE IF diffInterval = 0
           THEN \* i % diffInterval raises ZeroDivisionError
                /\ Commit(w2)
                /\ pc' = "raised"
                /\ exc' = "ZeroDivisionError"
                /\ UNCHANGED <<height, row_num>>
           ELSE /\ IF IsBandBoundary(i, diffInterval, length_setting)
                   THEN /\ Commit(roomCopy(w2, 234, "stairs", 0, row_num, height))
                        /\ height' = NextHeight(height)
                   ELSE /\ Commit(roomCopy(w2, 237, "v_tunnel", 0, row_num, height))
                        /\ height' = height
                /\ row_num' = row_num + 1
                /\ pc' = "entry"
                /\ exc' = exc
    /\ UNCHANGED <<call, room, to,
                   difficulty_setting, length_setting, maildata, i, ii,
                   col_num, original_col_number, seed>>

\* gen.py:241-252: the branch-entry room
EntryRoom ==
    /\ pc = "entry"
    /\ original_col_number' = col_num
    /\ \E f \in 0..(NFloats - 1) :
         \* random.random() is the next draw of the stream; the stream the
         \* interpreter starts with is not known
         /\ rng.seed # OsSeed => f = Raw(rng.seed, rng.pos) % NFloats
         /\ seed' = IF Len(Fro(thread)) > 0
                    THEN [str |-> Fro(thread), f |-> -1]
                    ELSE [str |-> <<>>, f |-> f]
    /\ LET w0 == makeChunk(World, col_num, row_num)
           w1 == placeNextRoom(w0, 246, col_num, row_num, seed', height,
                               room_sel)
           w2 == IF EntryEastOpen(thread)
                 THEN setExits(w1, 251, col_num, row_num, height, -1, 1, -1, -1)
                 ELSE w1
       IN  IF roomCopyFits(height)
           THEN /\ Commit(w2)
                /\ col_num' = col_num + 1
                /\ ii' = 1
                /\ pc' = "branch"
                /\ exc' = exc
           ELSE \* gen.py:44: the copy of placeNextRoom raises ValueError,
                \* after the seeding and the template draw
                /\ Commit([w0 EXCEPT !.rng = Advance(Reseed(@, seed'), 1)])
                /\ pc' = "raised"
                /\ exc' = "ValueError"
                /\ UNCHANGED <<col_num, ii>>
    /\ UNCHANGED <<call, room, to,
                   difficulty_setting, length_setting, maildata, i,
                   row_num, height>>

\* gen.py:254-270: one message beyond the first
BranchStep ==
    /\ pc = "branch"
    /\ BranchContinues(ii, thread)
    /\ LET w1 == roomCopy(makeChunk(World, col_num, row_num), 257, "h_tunnel",
                          col_num, row_num, height)
           c == col_num + 1
           w2 == placeNextRoom(makeChunk(w1, c, row_num), 260, c, row_num,
                               seed, height, room_sel)
           w3 == setExits(w2, 262, c, row_num, height, 1, 1, 0, 0)
           lava == BranchHazard(height) = "lava"
           w4 == IF lava THEN theFloorIsLava(w3, 264, c, row_num, height)
                 ELSE noFloor(w3, 267, c, row_num, height)
           dangerBlock == IF lava THEN FLOWING_LAVA ELSE 0
           w5 == floorPuzzle(w4, 269, c, row_num, height, dangerBlock,
                             PuzzleDiff(height))
       IN  Commit(w5)
    /\ col_num' = col_num + 2
    /\ ii' = ii + 1
    /\ UNCHANGED <<call, room, to,
                   difficulty_setting, length_setting, maildata, pc, exc, i,
                   row_num, original_col_number, height, seed>>

\* gen.py:271-278: the end of the branch
Terminal ==
    /\ pc = "branch"
    /\ ~BranchContinues(ii, thread)
    /\ LET w1 == makeChunk(World, col_num, row_num)
           kind == TerminalKind(col_num - original_col_number)
       IN  Commit(CASE kind = "seal" ->
                         setExits(w1, 274, SealedColumn(col_num), row_num, height,
                                  -1, 0, -1, -1)
                    [] kind = "treasure" ->
                         roomCopy(w1, 276, "treasure", col_num, row_num, height)
                    [] OTHER ->
                         roomCopy(w1, 278, "gaudy", col_num, row_num, height))
    /\ pc' = "hazard"
    /\ UNCHANGED <<call, room, to,
                   difficulty_setting, length_setting, maildata, exc, i, ii,
                   row_num, col_num, original_col_number, height, seed>>

\* gen.py:279-289: the hazard of an odd thread, then the next row
EndThread ==
    /\ pc = "hazard"
    /\ IF SpineHazardDue(i)
       THEN LET lava == SpineHazard(height) = "lava"
                w1 == IF lava THEN theFloorIsLava(World, 282, 0, row_num, height)
                      ELSE noFloor(World, 285, 0, row_num, height)
                dangerBlock == IF lava THEN LAVA_ID ELSE 0
            IN  Commit(floorPuzzle(w1, 287, 0, row_num, height, dangerBlock,
                                   PuzzleDiff(height)))
       ELSE Commit(World)
    /\ row_num' = row_num + 1
    /\ col_num' = original_col_number
    /\ i' = i + 1
    /\ pc' = "loop"
    /\ UNCHANGED <<call, room, to,
                   difficulty_setting, length_setting, maildata, exc, ii,
                   original_col_number, height, seed>>

\* a final step that forgets to move to the next row
FinalStairsSameRow ==
    /\ pc = "final"
    /\ Commit(roomCopy(makeChunk(World, 0, row_num), 290, "stairs", 0, row_num,
                       height))
    /\ height' = NextHeight(height)
    /\ row_num' = row_num
    /\ pc' = "end"
    /\ UNCHANGED <<call, room, to,
                   difficulty_setting, length_setting, maildata, exc, i, ii,
                   col_num, original_col_number, seed>>

\* gen.py:290-292
FinalStairs ==
    /\ pc = "final"
    /\ Commit(roomCopy(makeChunk(World, 0, row_num), 290, "stairs", 0, row_num,
                       height))
    /\ height' = NextHeight(height)
    /\ row_num' = row_num + 1
    /\ pc' = "end"
    /\ UNCHANGED <<call, room, to,
                   difficulty_setting, length_setting, maildata, exc, i, ii,
                   col_num, original_col_number, seed>>

\* gen.py:293
EndRoom ==
    /\ pc = "end"
    /\ IF roomCopyFits(height)
       THEN /\ Commit(roomCopy(makeChunk(World, col_num, row_num), 293, "end",
                               col_num, row_num, height))
            /\ pc' = "done"
            /\ exc' = exc
       ELSE \* gen.py:44: the copy raises ValueError
            /\ Commit(makeChunk(World, col_num, row_num))
            /\ pc' = "raised"
            /\ exc' = "ValueError"
    /\ UNCHANGED <<call, room, to,
                   difficulty_setting, length_setting, maildata, i, ii,
                   row_num, col_num, original_col_number, height, seed>>

Next ==
    \/ Start
    \/ GetMail
    \/ NextThread
    \/ Break
    \/ Exhausted
    \/ SpineStep
    \/ EntryRoom
    \/ BranchStep
    \/ Terminal
    \/ EndThread
    \/ FinalStairs
    \/ EndRoom

Spec == Init /\ [][Next]_vars

\* the runs of the settings outside the table: a length limit of
\* 0..MaxSmallLength with every difficulty of the table
InitAnyLength ==
    /\ difficulty_setting \in {difficulty[k] : k \in DOMAIN difficulty}
    /\ length_setting \in 0..MaxSmallLength
    /\ maildata = <<>>
    /\ pc = "start"
    /\ exc = "none"
    /\ i = 0
    /\ ii = 0
    /\ row_num = 0
    /\ col_num = 0
    /\ original_col_number = 0
    /\ height = 0
    /\ seed = NoSeed
    /\ rng = [seed |-> OsSeed, pos |-> 0, n |-> 0]
    /\ grid = <<>>
    /\ signs = <<>>
    /\ ops = <<>>
    /\ call = NoCall
    /\ room = FreshRoom
    /\ to = FreshTarget

SpecAnyLength == InitAnyLength /\ [][Next]_vars

\* the runs of the unlimited length on long mail: MaxThreads threads and
\* more, the first of two messages and the others of one
Tall(T) == <<Thread(2, SenderA)>> \o Uniform(T - 1)
TallLists == {Tall(T) : T \in MaxThreads..MaxTallThreads}

InitTall == Init /\ length_setting = length[5]

GetMailTall ==
    /\ pc = "fetch"
    /\ maildata' \in TallLists
    /\ pc' = "loop"
    /\ UNCHANGED <<call, room, to,
                   difficulty_setting, length_setting, exc, i, ii, row_num,
                   col_num, original_col_number, height, seed, rng, grid,
                   signs, ops>>

NextTall ==
    \/ Start
    \/ GetMailTall
    \/ NextThread
    \/ Exhausted
    \/ SpineStep
    \/ EntryRoom
    \/ BranchStep
    \/ Terminal
    \/ EndThread
    \/ FinalStairs
    \/ EndRoom

SpecTall == InitTall /\ [][NextTall]_vars

\* the runs on mail with messages that lack the subject or the sender
GetMailRaw ==
    /\ pc = "fetch"
    /\ \E rawlist \in RawLists : maildata' = getmail(rawlist)
    /\ pc' = "loop"
    /\ UNCHANGED <<call, room, to,
                   difficulty_setting, length_setting, exc, i, ii, row_num,
                   col_num, original_col_number, height, seed, rng, grid,
                   signs, ops>>

NextRaw ==
    \/ Start
    \/ GetMailRaw
    \/ NextThread
    \/ Break
    \/ Exhausted
    \/ SpineStep
    \/ EntryRoom
    \/ BranchStep
    \/ Terminal
    \/ EndThread
    \/ FinalStairs
    \/ EndRoom

SpecRaw == Init /\ [][NextRaw]_vars

\* ------------------------------------------- setExits and roomCopy alone
\* One call of setExits on a room, or of roomCopy from a template into a
\* target, with the arguments drawn at the start.

ExitValues == {-1, 0, 1}
ExitHeights == {b * HEIGHT_INC : b \in 0..MaxExitBands}
CopyHeights == 0..MaxCopyHeight
PuzzleHeights == {b * HEIGHT_INC : b \in 0..MaxPuzzleBands}

Calls ==
    {[fn |-> "setExits", h |-> h,
      exits |-> [west |-> w, east |-> e, north |-> n, south |-> s],
      status |-> "called"] :
        h \in ExitHeights, w \in ExitValues, e \in ExitValues,
        n \in ExitValues, s \in ExitValues}
    \cup
    {[fn |-> "roomCopy", h |-> h, exits |-> NoExits, status |-> "called"] :
        h \in CopyHeights}
    \cup
    {[fn |-> "floorPuzzle", h |-> h, exits |-> NoExits, status |-> "called"] :
        h \in PuzzleHeights}

\* the stream a branch room's puzzle draws from: seeded, two draws made
PuzzleStreams ==
    {[seed |-> SeedOf([str |-> s, f |-> -1]), pos |-> 2, n |-> 1] :
        s \in {SenderA, SenderB}}

InitCall ==
    /\ difficulty_setting = difficulty[4]
    /\ length_setting = length[3]
    /\ maildata = <<>>
    /\ pc = "start"
    /\ exc = "none"
    /\ i = 0
    /\ ii = 0
    /\ row_num = 0
    /\ col_num = 0
    /\ original_col_number = 0
    /\ height = 0
    /\ seed = NoSeed
    /\ call \in Calls
    /\ rng \in IF call.fn = "floorPuzzle" THEN PuzzleStreams
               ELSE {[seed |-> OsSeed, pos |-> 0, n |-> 0]}
    /\ grid = <<>>
    /\ signs = <<>>
    /\ ops = <<>>
    /\ room = FreshRoom
    /\ to = FreshTarget

\* gen.py:72-110
CallSetExits ==
    /\ call.fn = "setExits"
    /\ call.status = "called"
    /\ room' = setExitsBlocks(room, call.h, call.exits)
    /\ call' = [call EXCEPT !.status = "returned"]
    /\ UNCHANGED <<to, difficulty_setting, length_setting, maildata, pc, exc,
                   i, ii, row_num, col_num, original_col_number, height, seed,
                   rng, grid, signs, ops>>

\* gen.py:43-47
CallRoomCopy ==
    /\ call.fn = "roomCopy"
    /\ call.status = "called"
    /\ roomCopyFits(call.h)
    /\ to' = roomCopyLayers(TemplateChunk, to, call.h)
    /\ call' = [call EXCEPT !.status = "returned"]
    /\ UNCHANGED <<room, difficulty_setting, length_setting, maildata, pc,
                   exc, i, ii, row_num, col_num, original_col_number, height,
                   seed, rng, grid, signs, ops>>

\* gen.py:44: the two ranges differ in length and the assignment raises
CallRoomCopyRaises ==
    /\ call.fn = "roomCopy"
    /\ call.status = "called"
    /\ ~roomCopyFits(call.h)
    /\ call' = [call EXCEPT !.status = "ValueError"]
    /\ UNCHANGED <<room, to, difficulty_setting, length_setting, maildata,
                   pc, exc, i, ii, row_num, col_num, original_col_number,
                   height, seed, rng, grid, signs, ops>>

\* gen.py:263-268: the hazard floor of a branch room
CallHazardFloor ==
    /\ call.fn = "floorPuzzle"
    /\ call.status = "called"
    /\ room' = [Blocks |-> IF BranchHazard(call.h) = "lava"
                           THEN theFloorIsLavaBlocks(room.Blocks, call.h)
                           ELSE noFloorBlocks(room.Blocks, call.h),
                changed |-> room.changed + 1]
    /\ call' = [call EXCEPT !.status = "floored"]
    /\ UNCHANGED <<to, difficulty_setting, length_setting, maildata, pc, exc,
                   i, ii, row_num, col_num, original_col_number, height, seed,
                   rng, grid, signs, ops>>

\* gen.py:269: the puzzle on the hazard floor
CallFloorPuzzle ==
    /\ call.fn = "floorPuzzle"
    /\ call.status = "floored"
    /\ room' = [room EXCEPT !.Blocks =
                   floorPuzzleBlocks(@, rng, call.h,
                                     IF BranchHazard(call.h) = "lava"
                                     THEN FLOWING_LAVA ELSE 0,
                                     PuzzleDiff(call.h))]
    /\ rng' = Advance(rng, PUZZLE_DRAWS)
    /\ call' = [call EXCEPT !.status = "returned"]
    /\ UNCHANGED <<to, difficulty_setting, length_setting, maildata, pc, exc,
                   i, ii, row_num, col_num, original_col_number, height, seed,
                   grid, signs, ops>>

NextCall ==
    \/ CallSetExits
    \/ CallRoomCopy
    \/ CallRoomCopyRaises
    \/ CallHazardFloor
    \/ CallFloorPuzzle

SpecCall == InitCall /\ [][NextCall]_vars

\* ------------------------------------------------------ what the claims use

\* the threads whose processing has ended
Done(k) == k < i
\* thread k is looked at when its branch loop has just ended and again,
\* with every other thread, at the end of the run
BranchEnded(k) == (pc = "hazard" /\ k = i) \/ (pc = "done" /\ k < i)

\* the rows of thread k: its spine cell and its branch
SpineRow(k) == 2 * k + 1
BranchRow(k) == 2 * k + 2

\* the number of threads the loop processes
Processed ==
    IF length_setting < 0 THEN Len(maildata)
    ELSE Min(Len(maildata), length_setting)

IsEntryPlacement(o) == o.site = 246
IsStairs(o) == o.op = "roomCopy" /\ o.tmpl = "stairs"

\* C1: height never decreases, every change is an increase by HEIGHT_INC, and
\* it comes right after a stairs was stamped at the old height, at a thread
\* step whose index is a non-zero multiple of the band interval or at the
\* final step, which is taken once.
C1_HeightOnlyByStairs ==
    [][/\ height' >= height
       /\ height' # height =>
            /\ height' = height + HEIGHT_INC
            /\ Len(ops') > Len(ops)
            /\ IsStairs(ops'[Len(ops')])
            /\ ops'[Len(ops')].h = height
            /\ \/ /\ pc = "spine"
                  /\ i # 0
                  /\ \E k \in -i..i :
                        i = k * PyDiv(length_setting, difficulty_setting)
               \/ /\ pc = "final"
                  /\ \A n \in DOMAIN ops : ops[n].site # 290
       /\ \A n \in (DOMAIN ops') \ (DOMAIN ops) :
            IsStairs(ops'[n]) => height' = height + HEIGHT_INC
      ]_vars

C1_Witness ==
    /\ pc = "entry"
    /\ height = 2 * HEIGHT_INC
    /\ IsStairs(ops[Len(ops)])

\* C2: with an empty thread list the run issues three placements: the start
\* room copied whole to (0,0), a stairs at (0,1) at height 0 and the end room
\* at (0,2) at height HEIGHT_INC, and height is HEIGHT_INC.
C2_EmptyMail ==
    (pc = "done" /\ maildata = <<>>) =>
        /\ Len(ops) = 3
        /\ ops[1].op = "deepCopy" /\ ops[1].tmpl = "start"
        /\ <<ops[1].col, ops[1].row>> = <<0, 0>>
        /\ ops[2].op = "roomCopy" /\ ops[2].tmpl = "stairs"
        /\ <<ops[2].col, ops[2].row, ops[2].h>> = <<0, 1, 0>>
        /\ ops[3].op = "roomCopy" /\ ops[3].tmpl = "end"
        /\ <<ops[3].col, ops[3].row, ops[3].h>> = <<0, 2, HEIGHT_INC>>
        /\ height = HEIGHT_INC
        /\ DOMAIN signs = {}

C2_Witness == pc = "done" /\ maildata = <<>> /\ Len(ops) = 3

Pairs(k) ==
    {n \in DOMAIN ops :
        /\ n < Len(ops)
        /\ ops[n].site = 257 /\ ops[n].tmpl = "h_tunnel"
        /\ ops[n].row = BranchRow(k)
        /\ ops[n + 1].site = 260 /\ ops[n + 1].tmpl \in {"basic", "basic2"}
        /\ ops[n + 1].row = BranchRow(k)
        /\ ops[n + 1].col = ops[n].col + 1}

\* a maximum branch length that the longest thread of the model exceeds
BranchCap == MaxMsgs - 2

C5_Scenario ==
    (/\ pc = "done"
     /\ difficulty_setting = 4
     /\ length_setting = 20
     /\ Len(maildata) = 20
     /\ \A k \in 1..20 : Len(maildata[k]) = 1) =>
        /\ Len(SelectSeq(ops, IsEntryPlacement)) = 20
        /\ \A n \in DOMAIN ops : ops[n].site \notin {257, 260}
        /\ \A k \in 0..19 :
              grid[<<0, SpineRow(k)>>].tmpl
                  = IF k \in {5, 10, 15} THEN "stairs" ELSE "v_tunnel"
        /\ height = 4 * HEIGHT_INC

C5_Witness ==
    /\ pc = "done"
    /\ difficulty_setting = 4
    /\ length_setting = 20
    /\ Len(maildata) = 20
    /\ \A k \in 1..20 : Len(maildata[k]) = 1
    /\ height = 32

\* the setExits calls that wrote the east face of cell c
EastCalls(c) ==
    {n \in DOMAIN ops :
        ops[n].op = "setExits" /\ <<ops[n].col, ops[n].row>> = c
        /\ ops[n].exits.east > -1}

\* C6: once the branch of a thread has ended, the east exit of its
\* branch-entry room is open iff the thread has more than one message; with
\* one message or none the face was walled and no call ever opened it.
C6_EntryEast ==
    \A k \in 0..(Len(maildata) - 1) :
        BranchEnded(k) =>
            LET c == <<0, BranchRow(k)>>
            IN  IF Len(maildata[k + 1]) > 1
                THEN grid[c].exits.east = 1
                ELSE /\ grid[c].exits.east = 0
                     /\ EastCalls(c) # {}
                     /\ \A n \in EastCalls(c) : ops[n].exits.east = 0

C6_Witness ==
    /\ pc = "done"
    /\ Len(maildata) = 2
    /\ Len(maildata[1]) = 1
    /\ Len(maildata[2]) = 2
    /\ grid[<<0, 2>>].exits.east = 0
    /\ grid[<<0, 4>>].exits.east = 1

\* the column distance reached at the end of the branch loop
Reached == col_num - original_col_number

Sealed ==
    /\ ops[Len(ops)].site = 274
    /\ <<ops[Len(ops)].col, ops[Len(ops)].row>> = <<col_num - 1, row_num>>
    /\ ops[Len(ops)].exits = [NoExits EXCEPT !.east = 0]
    /\ grid[<<col_num, row_num>>].tmpl = "none"

TreasureStamped(tmpl) ==
    /\ ops[Len(ops)].op = "roomCopy"
    /\ ops[Len(ops)].tmpl = tmpl
    /\ <<ops[Len(ops)].col, ops[Len(ops)].row>> = <<col_num, row_num>>
    /\ grid[<<col_num, row_num>>].tmpl = tmpl

\* C7 as stated: a distance of 5 or less seals the last doorway, 6 or 7
\* gives the plain treasure room, 8 or more the gaudy one.
C7_Original ==
    pc = "hazard" =>
        /\ Reached <= 5 => Sealed
        /\ Reached \in {6, 7} => TreasureStamped("treasure")
        /\ Reached >= 8 => TreasureStamped("gaudy")

\* C7 amended: a distance below 5 seals the east doorway of the cell west of
\* the cursor and stamps no treasure room; 5, 6 or 7 stamps the plain
\* treasure room at the cursor; 8 or more stamps the gaudy one.
C7_Terminal ==
    pc = "hazard" =>
        /\ Reached < 5 => Sealed
        /\ Reached \in 5..7 => TreasureStamped("treasure")
        /\ Reached >= 8 => TreasureStamped("gaudy")

C7_Witness ==
    /\ pc = "hazard"
    /\ Reached = 5
    /\ TreasureStamped("treasure")

\* C8 as stated: the spine cell of thread k is the stairs iff k is a
\* positive multiple of floor(length/difficulty), the vertical tunnel
\* otherwise; it is never the stairs for k = 0 nor for k = length - 1.
C8_Original ==
    \A k \in 0..(Len(maildata) - 1) :
        Done(k) =>
            LET interval == PyDiv(length_setting, difficulty_setting)
                boundary == k > 0 /\ \E m \in -k..k : k = m * interval
                cell == grid[<<0, SpineRow(k)>>]
            IN  /\ cell.tmpl = IF boundary THEN "stairs" ELSE "v_tunnel"
                /\ (k = 0 \/ k = length_setting - 1) => cell.tmpl # "stairs"

\* C9 as stated: a run that processes exactly `length` threads ends with
\* height = difficulty * HEIGHT_INC.
C9_Original ==
    (pc = "done" /\ length_setting > 0 /\ i = length_setting) =>
        height = difficulty_setting * HEIGHT_INC

InView(c) == c \in DOMAIN grid /\ (pc = "done" \/ c[2] = row_num)

\* the cells a placeNextRoom call filled
IsGeneric(c) == grid[c].seed # NoSeed

\* what a seed selects when it is replayed alone: random.seed(sd), then the
\* template draw and the pillar draw
Replay(sd) ==
    LET r0 == [seed |-> SeedOf(sd), pos |-> 0]
    IN  [tmpl |-> room_sel[RandInt(r0, 0, Len(room_sel) - 1) + 1],
         pillar |-> RandInt(Advance(r0, 1), 0, 10) = 0]

\* C11: every room placeNextRoom filled has the template and the pillars its
\* seed gives when replayed alone, whatever was drawn before the call; so two
\* rooms of the same seed have the same template and the same pillars.
C11_SameSeedSameRoom ==
    /\ \A c \in DOMAIN grid :
          (InView(c) /\ IsGeneric(c)) =>
              /\ grid[c].tmpl = Replay(grid[c].seed).tmpl
              /\ grid[c].pillar = Replay(grid[c].seed).pillar
    /\ pc = "hazard" =>
          \A x \in 1..(col_num - 1) :
              IsGeneric(<<x, row_num>>) =>
                  /\ grid[<<x, row_num>>].seed = grid[<<0, row_num>>].seed
                  /\ grid[<<x, row_num>>].tmpl = grid[<<0, row_num>>].tmpl
                  /\ grid[<<x, row_num>>].pillar = grid[<<0, row_num>>].pillar

\* two threads of the same sender, with puzzle draws made between them
C11_Witness ==
    /\ pc = "done"
    /\ {<<0, 6>>, <<2, 4>>} \subseteq DOMAIN grid
    /\ grid[<<0, 2>>].seed = grid[<<0, 6>>].seed
    /\ grid[<<2, 4>>].puzzle # NoPuzzle
    /\ grid[<<0, 2>>].pillar
    /\ grid[<<0, 6>>].pillar
    /\ grid[<<0, 4>>].tmpl # grid[<<0, 6>>].tmpl

\* C12 as stated: the seed of a non-empty thread is the whole sender string of
\* its first message, and a random draw is the seed of empty threads only.
C12_Original ==
    pc \in {"branch", "hazard"} =>
        LET c == grid[<<0, row_num>>]
        IN  /\ Len(thread) > 0 => c.seed = [str |-> thread[1].from, f |-> -1]
            /\ c.seed.f >= 0 => Len(thread) = 0

\* the calls a step adds to ops
NewOps == (Len(ops) + 1)..Len(ops')

IsStamp(o) == o.op \in {"roomCopy", "deepCopy"}

\* the template copies into the cell of call n that came before it
EarlierStamps(log, n) ==
    {m \in 1..(n - 1) :
        IsStamp(log[m]) /\ <<log[m].col, log[m].row>> = <<log[n].col, log[n].row>>}

\* C13 as stated: no cell receives two template copies of different templates.
C13_Original ==
    [][\A n \in NewOps :
          IsStamp(ops'[n]) =>
              \A m \in EarlierStamps(ops', n) : ops'[m].tmpl = ops'[n].tmpl
      ]_vars

\* C13 amended: a cell receives copies of one template only, except the spine
\* cell of a band-boundary thread, which gets the vertical tunnel (gen.py:203)
\* and then, in the same step and at the same height, the stairs (gen.py:234).
C13_OneTemplate ==
    [][\A n \in NewOps :
          IsStamp(ops'[n]) =>
              \A m \in EarlierStamps(ops', n) :
                  \/ ops'[m].tmpl = ops'[n].tmpl
                  \/ /\ ops'[m].site = 203 /\ ops'[m].tmpl = "v_tunnel"
                     /\ ops'[n].site = 234 /\ ops'[n].tmpl = "stairs"
                     /\ m = n - 2
                     /\ m \in NewOps
                     /\ ops'[m].h = ops'[n].h
                     /\ <<ops'[n].col, ops'[n].row>> = <<0, SpineRow(i)>>
      ]_vars

C13_Witness ==
    /\ pc = "entry"
    /\ ops[Len(ops)].site = 234
    /\ ops[Len(ops) - 2].site = 203
    /\ ops[Len(ops) - 2].tmpl = "v_tunnel"
    /\ <<ops[Len(ops) - 2].col, ops[Len(ops) - 2].row>>
          = <<ops[Len(ops)].col, ops[Len(ops)].row>>
    /\ grid[<<0, row_num - 1>>].tmpl = "stairs"

\* the cell next to cell <<col, row>> on a face
Neighbour(col, row, face) ==
    CASE face = "west" -> <<col - 1, row>>
      [] face = "east" -> <<col + 1, row>>
      [] face = "north" -> <<col, row - 1>>
      [] face = "south" -> <<col, row + 1>>

StampedBefore(log, n, c) ==
    \E m \in 1..(n - 1) : IsStamp(log[m]) /\ <<log[m].col, log[m].row>> = c

\* C14 as stated: a setExits call on a face comes after the template copy of
\* the room's cell and after the template copy of the neighbouring cell on
\* that face.
C14_Original ==
    [][\A n \in NewOps :
          ops'[n].op = "setExits" =>
              /\ StampedBefore(ops', n, <<ops'[n].col, ops'[n].row>>)
              /\ \A face \in {"west", "east", "north", "south"} :
                    ops'[n].exits[face] > -1 =>
                        StampedBefore(ops', n,
                                      Neighbour(ops'[n].col, ops'[n].row, face))
      ]_vars

\* C14 amended: a setExits call on a room comes after the template copy of
\* the room's own cell, at the height of that copy, and no template is copied
\* into the cell after it, so no doorway is erased; the neighbouring cell on
\* the face may still be unstamped.
C14_ExitsAfterOwnStamp ==
    [][\A n \in NewOps :
          /\ ops'[n].op = "setExits" =>
                /\ EarlierStamps(ops', n) # {}
                /\ \A m \in EarlierStamps(ops', n) : ops'[m].h = ops'[n].h
          /\ IsStamp(ops'[n]) =>
                \A m \in 1..(n - 1) :
                    ~(/\ ops'[m].op = "setExits"
                      /\ <<ops'[m].col, ops'[m].row>>
                            = <<ops'[n].col, ops'[n].row>>)
      ]_vars

\* the east exit of an entry room is opened before the tunnel east of it exists
C14_Witness ==
    /\ pc = "branch"
    /\ ii = 1
    /\ ops[Len(ops)].site = 251
    /\ ops[Len(ops)].exits.east = 1
    /\ <<1, row_num>> \notin DOMAIN grid
    /\ grid[<<0, row_num>>].exits.east = 1

Faces == {"west", "east", "north", "south"}

\* the two blocks, side by side in the middle of a face, at layer z
FaceBlocks(face, z) ==
    CASE face = "west" -> {<<0, 7, z>>, <<0, 8, z>>}
      [] face = "east" -> {<<15, 7, z>>, <<15, 8, z>>}
      [] face = "north" -> {<<7, 0, z>>, <<8, 0, z>>}
      [] face = "south" -> {<<7, 15, z>>, <<8, 15, z>>}

Aperture(face, h) == FaceBlocks(face, h + 4) \cup FaceBlocks(face, h + 5)
FloorBlocks(face, h) == FaceBlocks(face, h + 3)

\* C15: setExits(room, h, ...) writes, for a face of value 1, air into the
\* aperture at layers h+4..h+5 and cobblestone into the two floor blocks at
\* layer h+3; for a face of value 0, stone brick into the aperture and nothing
\* into the floor blocks; and nothing else: a face of value -1 and every other
\* block stay as they were (heights 0, 8, .., whose layers exist).
C15_SetExitsBlocks ==
    (call.fn = "setExits" /\ call.status = "returned") =>
        /\ DOMAIN room.Blocks =
              UNION {IF call.exits[f] = 1
                     THEN Aperture(f, call.h) \cup FloorBlocks(f, call.h)
                     ELSE IF call.exits[f] = 0
                          THEN Aperture(f, call.h)
                          ELSE {} : f \in Faces}
        /\ \A f \in Faces :
              /\ call.exits[f] = 1 =>
                    /\ \A p \in Aperture(f, call.h) : room.Blocks[p] = AIR
                    /\ \A p \in FloorBlocks(f, call.h) :
                          room.Blocks[p] = COBBLESTONE
              /\ call.exits[f] = 0 =>
                    \A p \in Aperture(f, call.h) : room.Blocks[p] = STONE_BRICK

C15_Witness ==
    /\ call.fn = "setExits"
    /\ call.status = "returned"
    /\ call.h = HEIGHT_INC
    /\ call.exits = [west |-> 1, east |-> 0, north |-> -1, south |-> 1]
    /\ room.Blocks[<<0, 7, 11>>] = COBBLESTONE
    /\ room.Blocks[<<0, 8, 13>>] = AIR
    /\ room.Blocks[<<15, 7, 12>>] = STONE_BRICK
    /\ <<15, 7, 11>> \notin DOMAIN room.Blocks
    /\ <<7, 0, 12>> \notin DOMAIN room.Blocks

\* C16: for 0 <= h <= 253, roomCopy(fro, to, h) returns with layer z+h of the
\* target equal to layer z of the template for every z in 3..255-h, blocks
\* and data, with the target's layers 0..2+h as they were, and with one
\* chunkChanged notification.
C16_RoomCopyLayers ==
    (call.fn = "roomCopy" /\ call.status # "called" /\ call.h <= 253) =>
        /\ call.status = "returned"
        /\ \A z \in 3..(255 - call.h) :
              /\ to.Blocks[z + call.h] = TemplateChunk.Blocks[z]
              /\ to.Data[z + call.h] = TemplateChunk.Data[z]
        /\ \A z \in 0..(2 + call.h) :
              /\ to.Blocks[z] = FreshTarget.Blocks[z]
              /\ to.Data[z] = FreshTarget.Data[z]
        /\ to.changed = 1

C16_Witness ==
    /\ call.fn = "roomCopy"
    /\ call.status = "returned"
    /\ call.h = 3 * HEIGHT_INC
    /\ to.Blocks[27] = <<"fro", "Blocks", 3>>
    /\ to.Data[255] = <<"fro", "Data", 231>>
    /\ to.Blocks[26] = <<"to", "Blocks", 26>>
    /\ to.changed = 1

\* C17 as stated: for every height h >= 0 that is a multiple of HEIGHT_INC,
\* also when 3+h is 256 or more, roomCopy returns without error.
C17_Original ==
    (/\ call.fn = "roomCopy"
     /\ call.status # "called"
     /\ call.h % HEIGHT_INC = 0) => call.status = "returned"

\* C18 as stated: missing message data never ends the run: the sign of an
\* empty thread reads ("Draft", ""), and the sign of any other thread reads
\* the first 15 characters of its first message's subject and sender, with
\* "Draft" in place of a missing subject.
C18_Original ==
    /\ exc = "none"
    /\ pc = "entry" =>
          LET te == signs[SignPoint(i)]
              draft == <<"D", "r", "a", "f", "t">>
          IN  IF Len(thread) = 0
              THEN te.Text1 = draft /\ te.Text2 = <<>>
              ELSE /\ te.Text1 = IF thread[1].subject = PyNone THEN draft
                                 ELSE Prefix(thread[1].subject, SIGN_CHARS)
                   /\ te.Text2 = Prefix(thread[1].from, SIGN_CHARS)

\* C19 as stated: within a thread the random stream is seeded once, for the
\* branch-entry room; every later generic room of the branch is drawn from
\* the same seeding, at the next positions of the stream (3rd draw or later).
C19_Original ==
    pc = "hazard" =>
        \A x \in 1..(col_num - 1) :
            IsGeneric(<<x, row_num>>) =>
                /\ grid[<<x, row_num>>].seedCalls = grid[<<0, row_num>>].seedCalls
                /\ grid[<<x, row_num>>].drawPos >= 2

\* C20: every generic room stamped for a message of index >= 1 gets, in this
\* order, setExits with west and east 1 and north and south 0, then
\* theFloorIsLava when height < 24 and noFloor otherwise, then floorPuzzle
\* with danger block 10 after lava and 0 after noFloor.
C20_BranchRoom ==
    (pc = "branch" /\ ii > 1) =>
        LET n == Len(ops)
            c == <<col_num - 1, row_num>>
            At(o) == <<o.col, o.row>> = c /\ o.h = height
        IN  /\ ops[n - 3].site = 260 /\ IsStamp(ops[n - 3]) /\ At(ops[n - 3])
            /\ ops[n - 2].op = "setExits" /\ At(ops[n - 2])
            /\ ops[n - 2].exits =
                  [west |-> 1, east |-> 1, north |-> 0, south |-> 0]
            /\ ops[n - 1].op =
                  (IF height < 24 THEN "theFloorIsLava" ELSE "noFloor")
            /\ At(ops[n - 1])
            /\ ops[n].op = "floorPuzzle" /\ At(ops[n])
            /\ grid[c].exits = [west |-> 1, east |-> 1, north |-> 0, south |-> 0]
            /\ grid[c].hazard = (IF height < 24 THEN "lava" ELSE "nofloor")
            /\ grid[c].puzzle # NoPuzzle
            /\ grid[c].puzzle.h = height
            /\ grid[c].puzzle.dangerBlock = (IF height < 24 THEN 10 ELSE 0)

\* a branch room at height 16 gets lava, one at height 24 gets no floor
C20_Witness ==
    /\ pc = "branch"
    /\ ii > 1
    /\ height = 24
    /\ grid[<<col_num - 1, row_num>>].hazard = "nofloor"
    /\ grid[<<col_num - 1, row_num>>].puzzle.dangerBlock = 0
    /\ \E r \in 1..(row_num - 1) :
          /\ <<2, r>> \in DOMAIN grid
          /\ grid[<<2, r>>].puzzle # NoPuzzle
          /\ grid[<<2, r>>].puzzle.h = 16
          /\ grid[<<2, r>>].hazard = "lava"
          /\ grid[<<2, r>>].puzzle.dangerBlock = 10

\* the thread whose processing has just ended, and the row of its branch
JustEnded == pc = "loop" /\ i > 0
LastThread == i - 1
LastBranchRow == row_num - 1

Treated(c) == grid[c].hazard # "none" /\ grid[c].puzzle # NoPuzzle

\* C21 as stated: for a thread of odd index the hazard given to the spine is
\* the hazard given to the branch rooms of the thread: the same kind (lava or
\* floor removal) and the same danger block.
C21_Original ==
    (/\ JustEnded
     /\ LastThread % 2 = 1
     /\ <<2, LastBranchRow>> \in DOMAIN grid
     /\ grid[<<2, LastBranchRow>>].puzzle # NoPuzzle) =>
        LET spine == grid[<<0, LastBranchRow>>]
            branch == grid[<<2, LastBranchRow>>]
        IN  /\ Treated(<<0, LastBranchRow>>)
            /\ spine.hazard = branch.hazard
            /\ spine.puzzle.dangerBlock = branch.puzzle.dangerBlock

IsTunnelCell(c) == grid[c].tmpl \in {"v_tunnel", "stairs"}

\* C22 as stated: of the two column-0 cells of a processed thread of odd index
\* exactly one has the hazard floor and the puzzle, and it is a tunnel cell
\* (vertical tunnel or stairs), not a generic room; for a thread of even
\* index none has.
C22_Original ==
    JustEnded =>
        LET cells == {<<0, LastBranchRow - 1>>, <<0, LastBranchRow>>}
            treated == {c \in cells : Treated(c)}
        IN  IF LastThread % 2 = 1
            THEN /\ Cardinality(treated) = 1
                 /\ \A c \in treated : IsTunnelCell(c) /\ ~IsGeneric(c)
            ELSE treated = {}

\* C22 amended: of the two column-0 cells of a processed thread of odd index
\* exactly one has the hazard floor and the puzzle: the branch-entry room at
\* (0, 2i+2), a generic room; the tunnel or stairs cell at (0, 2i+1) has none.
\* For a thread of even index neither cell has a hazard floor or a puzzle.
C22_SpineHazardCell ==
    JustEnded =>
        LET tunnel == <<0, SpineRow(LastThread)>>
            entry == <<0, BranchRow(LastThread)>>
        IN  /\ entry[2] = LastBranchRow
            /\ IsTunnelCell(tunnel)
            /\ IsGeneric(entry) /\ ~IsTunnelCell(entry)
            /\ grid[tunnel].hazard = "none" /\ grid[tunnel].puzzle = NoPuzzle
            /\ IF LastThread % 2 = 1
               THEN Treated(entry)
               ELSE grid[entry].hazard = "none" /\ grid[entry].puzzle = NoPuzzle

C22_Witness ==
    /\ JustEnded
    /\ LastThread = 1
    /\ Treated(<<0, 4>>)
    /\ grid[<<0, 4>>].tmpl \in {"basic", "basic2"}
    /\ grid[<<0, 3>>].tmpl = "v_tunnel"
    /\ grid[<<0, 3>>].puzzle = NoPuzzle
    /\ grid[<<0, 2>>].puzzle = NoPuzzle

PuzzleArea == (1..14) \X (2..13)

\* C23: after the hazard floor of a branch room the danger block lies, on
\* floor layer 3+h, exactly on the tiles x in 1..14, y in 2..13.  floorPuzzle
\* gives each of these tiles a draw of its own from 0..(h/HEIGHT_INC + 1): the
\* tile is safe stone iff the draw is 0 and the danger block otherwise; the
\* draw has h/HEIGHT_INC + 2 outcomes, more than at every lower height; and
\* no block outside these tiles is changed by the puzzle.
C23_PuzzleTiles ==
    (call.fn = "floorPuzzle" /\ call.status # "called") =>
        LET h == call.h
            floor == 3 + h
            lava == h < 24
            danger == IF lava THEN 10 ELSE 0
            outcomes == (h \div HEIGHT_INC) + 2
            first == IF call.status = "returned" THEN rng.pos - 12 * 14
                     ELSE rng.pos
            draw(x, y) ==
                Raw(rng.seed, first + (y - 2) * 14 + (x - 1)) % outcomes
        IN  /\ \A p \in DOMAIN room.Blocks :
                  <<p[1], p[2]>> \notin PuzzleArea => room.Blocks[p] = STONE_BRICK
            /\ \A p \in DOMAIN room.Blocks :
                  (p[3] < floor /\ <<p[1], p[2]>> \in PuzzleArea) =>
                      room.Blocks[p] = IF lava THEN STONE_BRICK ELSE AIR
            /\ \A p \in DOMAIN room.Blocks : p[3] <= floor
            /\ \A a \in PuzzleArea :
                  room.Blocks[<<a[1], a[2], floor>>] =
                      IF call.status = "floored" THEN danger
                      ELSE IF draw(a[1], a[2]) = 0 THEN 1
                      ELSE danger
            /\ Cardinality(0..PuzzleDiff(h)) = outcomes
            /\ \A lower \in PuzzleHeights :
                  lower < h => Cardinality(0..PuzzleDiff(lower)) < outcomes

\* a puzzle at height 16 on lava with safe and dangerous tiles
C23_Witness ==
    /\ call.fn = "floorPuzzle"
    /\ call.status = "returned"
    /\ call.h = 2 * HEIGHT_INC
    /\ \E a \in PuzzleArea : room.Blocks[<<a[1], a[2], 19>>] = 1
    /\ \E a \in PuzzleArea : room.Blocks[<<a[1], a[2], 19>>] = 10
    /\ room.Blocks[<<0, 0, 19>>] = STONE_BRICK

\* the cell a world position <<x, y, z>> lies in: cells are 16 x 16 columns
CellOf(pt) == <<pt[1] \div 16, pt[3] \div 16>>

\* C24 as stated: the sign of every processed thread is at a position inside
\* the cell of the thread's branch-entry room, the signs of different threads
\* are at different positions, and N processed threads leave N signs.
C24_Original ==
    JustEnded =>
        /\ {CellOf(pt) : pt \in DOMAIN signs} =
              {<<0, BranchRow(k)>> : k \in 0..LastThread}
        /\ \A pt \in DOMAIN signs : IsGeneric(CellOf(pt))
        /\ Cardinality(DOMAIN signs) = i

\* C24 amended: the sign of every processed thread i is at a position inside
\* the thread's tunnel-or-stairs cell (0, 2i+1), the cell north of the
\* branch-entry room; the signs of different threads are at different
\* positions, and N processed threads leave N signs.
C24_SignCell ==
    JustEnded =>
        /\ {CellOf(pt) : pt \in DOMAIN signs} =
              {<<0, SpineRow(k)>> : k \in 0..LastThread}
        /\ \A pt \in DOMAIN signs : IsTunnelCell(CellOf(pt))
        /\ Cardinality(DOMAIN signs) = i

C24_Witness ==
    /\ JustEnded
    /\ i = 3
    /\ Cardinality(DOMAIN signs) = 3
    /\ \E pt \in DOMAIN signs : CellOf(pt) = <<0, 5>> /\ pt[3] % 16 = 14
    /\ grid[<<0, 5>>].tmpl \in {"v_tunnel", "stairs"}
    /\ grid[<<0, 6>>].tmpl \in {"basic", "basic2"}

\* C25: the spine is column 0, two rows a thread: the start room at (0,0),
\* for the processed thread i the tunnel or stairs at (0, 2i+1) and the
\* branch-entry room at (0, 2i+2), after N processed threads the final stairs
\* at (0, 2N+1) and the end room at (0, 2N+2); the cursor column is 0 when a
\* thread starts and when the end room is placed.
C25_SpineLayout ==
    /\ pc = "spine" => col_num = 0 /\ row_num = SpineRow(i)
    /\ pc = "entry" =>
          /\ col_num = 0 /\ row_num = BranchRow(i)
          /\ IsTunnelCell(<<0, SpineRow(i)>>)
    /\ pc = "branch" /\ ii = 1 =>
          /\ row_num = BranchRow(i)
          /\ IsGeneric(<<0, BranchRow(i)>>)
    /\ pc = "end" =>
          /\ col_num = 0 /\ row_num = BranchRow(i)
          /\ grid[<<0, SpineRow(i)>>].tmpl = "stairs"
    /\ pc = "done" =>
          /\ i = Processed
          /\ grid[<<0, 0>>].tmpl = "start"
          /\ \A k \in 0..(i - 1) :
                /\ IsTunnelCell(<<0, SpineRow(k)>>)
                /\ IsGeneric(<<0, BranchRow(k)>>)
          /\ grid[<<0, SpineRow(i)>>].tmpl = "stairs"
          /\ grid[<<0, BranchRow(i)>>].tmpl = "end"
          /\ {c[2] : c \in {d \in DOMAIN grid : d[1] = 0}} = 0..BranchRow(i)

C25_Witness ==
    /\ pc = "done"
    /\ i = 2
    /\ <<2, 4>> \in DOMAIN grid
    /\ grid[<<0, 1>>].tmpl = "v_tunnel"
    /\ grid[<<0, 3>>].tmpl = "stairs"
    /\ grid[<<0, 4>>].tmpl \in {"basic", "basic2"}
    /\ grid[<<0, 5>>].tmpl = "stairs"
    /\ grid[<<0, 6>>].tmpl = "end"

\* C26: when the branch of a thread has ended, the branch-entry room and
\* every generic room of the branch are copies of the same template with the
\* same pillar decision, and the puzzles of the branch rooms are the same
\* stretch of the same stream with the same range and danger block: the same
\* pattern of safe tiles.
C26_BranchRepeats ==
    pc = "hazard" =>
        \A x \in 1..(col_num - 1) :
            IsGeneric(<<x, row_num>>) =>
                LET entry == grid[<<0, row_num>>]
                    first == grid[<<2, row_num>>]
                    this == grid[<<x, row_num>>]
                IN  /\ this.tmpl = entry.tmpl
                    /\ this.pillar = entry.pillar
                    /\ this.seed = entry.seed
                    /\ this.h = entry.h
                    /\ this.puzzle # NoPuzzle
                    /\ this.puzzle = first.puzzle
                    /\ this.hazard = first.hazard

C26_Witness ==
    /\ pc = "hazard"
    /\ col_num = 5
    /\ grid[<<0, row_num>>].pillar
    /\ grid[<<2, row_num>>].pillar
    /\ grid[<<4, row_num>>].pillar
    /\ grid[<<4, row_num>>].tmpl = grid[<<0, row_num>>].tmpl
    /\ grid[<<4, row_num>>].puzzle = grid[<<2, row_num>>].puzzle
    /\ grid[<<4, row_num>>].puzzle.pos = 2

\* C27: at the end of the branch loop of a thread of M messages the column
\* distance is 2 * max(M, 1) - 1, an odd number, and the end of the branch
\* depends on M alone: the last doorway is sealed iff M <= 2, a plain
\* treasure room is stamped iff M is 3 or 4, a gaudy one iff M >= 5.
C27_DistanceByMessages ==
    pc = "hazard" =>
        LET M == Len(thread)
        IN  /\ Reached = 2 * Max(M, 1) - 1
            /\ Reached % 2 = 1
            /\ Sealed <=> M <= 2
            /\ TreasureStamped("treasure") <=> M \in {3, 4}
            /\ TreasureStamped("gaudy") <=> M >= 5

C27_Witness ==
    /\ pc = "hazard"
    /\ Len(thread) = 5
    /\ col_num - original_col_number = 9
    /\ grid[<<9, row_num>>].tmpl = "gaudy"
    /\ grid[<<8, row_num>>].tmpl \in {"basic", "basic2"}

\* C28: when the branch of a thread has ended, the east doorway of the
\* branch-entry room and of every generic branch room is open iff the cell
\* east of it has a template copied into it (horizontal tunnel, plain or gaudy
\* treasure); when no treasure room is placed, the last room of the branch has
\* its east face walled and the cell east of it exists with nothing copied
\* into it.
C28_EastDoorways ==
    pc = "hazard" =>
        /\ \A x \in 0..(col_num - 1) :
              IsGeneric(<<x, row_num>>) =>
                  /\ <<x + 1, row_num>> \in DOMAIN grid
                  /\ grid[<<x, row_num>>].exits.east \in {0, 1}
                  /\ grid[<<x, row_num>>].exits.east = 1 <=>
                        grid[<<x + 1, row_num>>].tmpl
                            \in {"h_tunnel", "treasure", "gaudy"}
                  /\ grid[<<x, row_num>>].exits.east = 0 <=>
                        grid[<<x + 1, row_num>>].tmpl = "none"
        /\ grid[<<col_num, row_num>>].tmpl \in {"none", "treasure", "gaudy"}
        /\ IsGeneric(<<col_num - 1, row_num>>)
        /\ grid[<<col_num, row_num>>].tmpl = "none" =>
              /\ grid[<<col_num - 1, row_num>>].exits.east = 0
              /\ \A x \in 0..(col_num - 2) :
                    grid[<<x, row_num>>].exits.east # 0

\* a thread of two messages: entry room open to the east, branch room walled
C28_Witness ==
    /\ pc = "hazard"
    /\ Len(thread) = 2
    /\ col_num = 3
    /\ grid[<<0, row_num>>].exits.east = 1
    /\ grid[<<1, row_num>>].tmpl = "h_tunnel"
    /\ grid[<<2, row_num>>].exits.east = 0
    /\ grid[<<2, row_num>>].tmpl \in {"basic", "basic2"}
    /\ grid[<<3, row_num>>] = EmptyCell

\* C29: with a finite length of the table, whatever the difficulty and the
\* mail, height never exceeds 96 = 12 * HEIGHT_INC, and every call writes
\* layers below 256: setExits up to layer h + 5, the hazard floors and the
\* puzzle up to layer h + 3, and every copy has layers 3+h.. to write to.
C29_HeightBound ==
    length_setting >= 0 =>
        /\ height <= 96
        /\ height <= 12 * HEIGHT_INC
        /\ Len(ops) > 0 =>
              LET o == ops[Len(ops)]
              IN  /\ o.h <= height
                  /\ o.op \in {"setExits", "theFloorIsLava", "noFloor",
                              "floorPuzzle"} => o.h + 5 < 256
                  /\ o.op = "roomCopy" => 3 + o.h < 256

C29_Witness ==
    /\ pc = "done"
    /\ length_setting = 12
    /\ difficulty_setting = 7
    /\ height = 96
    /\ i = 12
    /\ ops[Len(ops)].h = 96

\* C30 as stated: with the length -1 a stairs is stamped and height grows at
\* every thread index >= 1, whatever the difficulty, and the run over N
\* threads ends with height HEIGHT_INC * max(N, 1), for every N.
C30_Original ==
    length_setting = -1 =>
        /\ exc = "none"
        /\ (pc = "entry" /\ i >= 1) =>
              /\ grid[<<0, SpineRow(i)>>].tmpl = "stairs"
              /\ height = HEIGHT_INC * i
        /\ pc = "done" => height = HEIGHT_INC * Max(Len(maildata), 1)

====
